---- MODULE Spec2Model ----
(***************************************************************************)
(* A model of the scheduling simulator of src/src/main.rs: the Process     *)
(* records, the Processor with its five implemented strategies, tick()     *)
(* and run() with the log of SchedulingEvents.                             *)
(*                                                                         *)
(* One step of the model is one iteration of the loop of run(): the whole  *)
(* of tick() followed by the push of the event.  The states inside a tick  *)
(* (after the admission, after suspend_current, after set_current, after   *)
(* the bookkeeping of the current process) are the values of the operators *)
(* AfterAdmit, AfterSuspend, AfterStrategy and AfterService.               *)
(***************************************************************************)
EXTENDS Naturals, Integers, Sequences, FiniteSets

\* Bounds of the model.
MaxProcs == 3
MaxStart == 2
MaxExec == 2
MaxPrio == 1
\* The u64 fields are modelled with WordBits bits; every value of a run that
\* does not underflow stays far below 2^WordBits.
WordBits == 6

Modulus == 2 ^ WordBits

VARIABLES
    initial,         \* main's `processes`: the vector every run gets a clone of
    processes,       \* Processor.processes
    current,         \* Processor.current
    strategy,        \* Processor.strategy
    system_time,     \* Processor.system_time
    log,             \* run's `log`
    pc,              \* where run() is: "run" (in the loop), "done", "panicked"
    overflow_checks  \* the build: TRUE panics on integer overflow, FALSE wraps

vars == <<initial, processes, current, strategy, system_time, log, pc, overflow_checks>>

----------------------------------------------------------------------------
\* Option<T>
None == << >>
Some(x) == << x >>

\* enum ProcessState
ProcessState == {"NonExistant", "Ready", "Running", "Suspended", "Terminated"}

\* Process::new
Process(id, start_time, execution_time, priority) ==
    [ id             |-> id,
      start_time     |-> start_time,
      remaining_time |-> execution_time,
      priority       |-> priority,
      waiting_time   |-> 0,
      serviced_time  |-> 0,
      state          |-> "NonExistant" ]

\* The strategies a Processor is constructed with.
Strategies ==
    { "first_come_first_serve", "shortest_job_first", "highest_priority_first",
      "highest_priority_first_preemptive", "shortest_remaining_time" }

NonPreemptive == { "first_come_first_serve", "shortest_job_first", "highest_priority_first" }

\* u64 `x += 1` and `x -= 1` of a build without overflow checks.
AddU64(x) == (x + 1) % Modulus
SubU64(x) == (x + Modulus - 1) % Modulus

----------------------------------------------------------------------------
\* The Processor, as the record the methods take as `self`.
Self == [ processes |-> processes, current |-> current, system_time |-> system_time ]

\* The position of the first process with this id (0: none).
Position(procs, id) ==
    IF \E i \in DOMAIN procs : procs[i].id = id
    THEN CHOOSE i \in DOMAIN procs :
            /\ procs[i].id = id
            /\ \A j \in DOMAIN procs : procs[j].id = id => i <= j
    ELSE 0

get_process(self, id) ==
    IF Position(self.processes, id) = 0
    THEN None
    ELSE Some(self.processes[Position(self.processes, id)])

current_process_ref(self) ==
    IF self.current = None THEN None ELSE get_process(self, self.current[1])

IsSchedulable(p) == p.state \in {"Ready", "Running", "Suspended"}

\* Mutant of scheduable_processes: every process that is not Terminated is a
\* candidate.
scheduable_processes_unarrived(self) ==
    SelectSeq(self.processes, LAMBDA p : p.state # "Terminated")

scheduable_processes(self) == SelectSeq(self.processes, IsSchedulable)

IsExecutable(p) == p.state # "Terminated"

executable_processes(self) == SelectSeq(self.processes, IsExecutable)

\* Mutants of needs_schedule: one that always asks for a new selection, one
\* that forgets the Terminated current process.
needs_schedule_always(self) == TRUE

needs_schedule_unoccupied(self) == current_process_ref(self) = None

needs_schedule(self) ==
    LET c == current_process_ref(self)
        terminated == IF c # None THEN c[1].state = "Terminated" ELSE FALSE
    IN  c = None \/ terminated

\* Mutant of suspend_current: the current process is left as it is.
suspend_current_skipped(self) == self

\* Mutant of suspend_current: the current process is suspended whatever its
\* state is.
suspend_current_unguarded(self) ==
    IF self.current = None
    THEN self
    ELSE [self EXCEPT !.processes[Position(self.processes, self.current[1])].state = "Suspended"]

suspend_current(self) ==
    IF self.current = None
    THEN self
    ELSE LET i == Position(self.processes, self.current[1])
         IN  IF self.processes[i].state # "Terminated" /\ self.processes[i].state # "Ready"
             THEN [self EXCEPT !.processes[i].state = "Suspended"]
             ELSE self

set_current_process_state(self, state) ==
    IF self.current = None
    THEN self
    ELSE [self EXCEPT !.processes[Position(self.processes, self.current[1])].state = state]

\* Mutant of set_current: the new current process keeps its state.
set_current_unmarked(self, id) == [self EXCEPT !.current = id]

set_current(self, id) ==
    set_current_process_state([self EXCEPT !.current = id], "Running")

----------------------------------------------------------------------------
\* Mutant of InsertByKey, a sort that is not stable: an element goes before the
\* elements of the same key.
InsertBeforeEqualKeys(sorted, p, key) ==
    LET n == Cardinality({ i \in DOMAIN sorted : sorted[i][key] < p[key] })
    IN  SubSeq(sorted, 1, n) \o << p >> \o SubSeq(sorted, n + 1, Len(sorted))

\* slice::sort_by_key, a stable sort: an element goes behind every element
\* whose key is not greater than its own.
InsertByKey(sorted, p, key) ==
    LET n == Cardinality({ i \in DOMAIN sorted : sorted[i][key] <= p[key] })
    IN  SubSeq(sorted, 1, n) \o << p >> \o SubSeq(sorted, n + 1, Len(sorted))

RECURSIVE sort_by_key(_, _)
sort_by_key(seq, key) ==
    IF seq = << >>
    THEN << >>
    ELSE InsertByKey(sort_by_key(SubSeq(seq, 1, Len(seq) - 1), key), seq[Len(seq)], key)

\* Mutant of first_id: the last element of the sorted candidates is taken.
last_id(scheduable) ==
    IF scheduable = << >> THEN None ELSE Some(scheduable[Len(scheduable)].id)

\* `match scheduable.first() { Some(process) => Some(process.id), None => None }`
first_id(scheduable) ==
    IF scheduable = << >> THEN None ELSE Some(scheduable[1].id)

first_come_first_serve(self) ==
    IF needs_schedule(self)
    THEN set_current(self, first_id(sort_by_key(scheduable_processes(self), "start_time")))
    ELSE self

\* Mutant of shortest_job_first: the candidates are sorted by start_time.
shortest_job_first_by_arrival(self) ==
    IF needs_schedule(self)
    THEN set_current(self, first_id(sort_by_key(scheduable_processes(self), "start_time")))
    ELSE self

shortest_job_first(self) ==
    IF needs_schedule(self)
    THEN set_current(self, first_id(sort_by_key(scheduable_processes(self), "remaining_time")))
    ELSE self

highest_priority_first(self) ==
    IF needs_schedule(self)
    THEN set_current(self, first_id(sort_by_key(scheduable_processes(self), "priority")))
    ELSE self

\* Mutant of highest_priority_first_preemptive: it selects only when the
\* processor is free, as highest_priority_first does.
highest_priority_first_unpreempted(self) ==
    IF needs_schedule(self)
    THEN set_current(self, first_id(sort_by_key(scheduable_processes(self), "priority")))
    ELSE self

highest_priority_first_preemptive(self) ==
    LET s == suspend_current(self)
    IN  set_current(s, first_id(sort_by_key(scheduable_processes(s), "priority")))

shortest_remaining_time(self) ==
    LET s == suspend_current(self)
    IN  set_current(s, first_id(sort_by_key(scheduable_processes(s), "remaining_time")))

\* (&self.strategy)(self)
ApplyStrategy(self) ==
    CASE strategy = "first_come_first_serve" -> first_come_first_serve(self)
      [] strategy = "shortest_job_first" -> shortest_job_first(self)
      [] strategy = "highest_priority_first" -> highest_priority_first(self)
      [] strategy = "highest_priority_first_preemptive" -> highest_priority_first_preemptive(self)
      [] strategy = "shortest_remaining_time" -> shortest_remaining_time(self)

----------------------------------------------------------------------------
\* tick(), in the order of its statements.

\* Mutant of AfterAdmit: every process whose start time has come is set to
\* Ready, in every tick.
AfterAdmitArrived(self) ==
    [self EXCEPT !.processes =
        [ i \in DOMAIN self.processes |->
            IF self.processes[i].start_time <= self.system_time
            THEN [self.processes[i] EXCEPT !.state = "Ready"]
            ELSE self.processes[i] ]]

\* Mutant of AfterAdmit: the admission compares with the clock of the next
\* tick.
AfterAdmitAhead(self) ==
    [self EXCEPT !.processes =
        [ i \in DOMAIN self.processes |->
            IF self.processes[i].start_time = self.system_time + 1
            THEN [self.processes[i] EXCEPT !.state = "Ready"]
            ELSE self.processes[i] ]]

\* "Set the state of all processes, that could be started in this tick to READY"
AfterAdmit(self) ==
    [self EXCEPT !.processes =
        [ i \in DOMAIN self.processes |->
            IF self.processes[i].start_time = self.system_time
            THEN [self.processes[i] EXCEPT !.state = "Ready"]
            ELSE self.processes[i] ]]

\* The state between the suspend_current and the set_current of a preemptive
\* strategy (the other strategies do not suspend).
AfterSuspend(self) ==
    IF strategy \in NonPreemptive THEN AfterAdmit(self) ELSE suspend_current(AfterAdmit(self))

\* After the strategy and `self.system_time += 1`.
AfterStrategy(self) ==
    [ApplyStrategy(AfterAdmit(self)) EXCEPT !.system_time = AddU64(@)]

\* `let previous = match previous { Some(id) => self.get_process(id).copied(), .. }`
\* where `previous` is the `current` tick() was entered with: the copy is taken
\* from `self` after the strategy has run.
PreviousSnapshot(previous, self) ==
    IF previous = None THEN None ELSE get_process(self, previous[1])

\* `process.remaining_time -= 1` on a remaining_time of 0.
Underflows(self) ==
    /\ self.current # None
    /\ self.processes[Position(self.processes, self.current[1])].remaining_time = 0

\* The statements on the current process before the subtraction.
ServiceStart(self) ==
    IF self.current = None
    THEN self
    ELSE LET i == Position(self.processes, self.current[1])
         IN  [self EXCEPT !.processes[i].waiting_time = 0,
                          !.processes[i].serviced_time = AddU64(@)]

\* `if let Some(process) = self.current_process_mut() { .. }`
Service(self) ==
    IF self.current = None
    THEN self
    ELSE LET i == Position(self.processes, self.current[1])
             s == ServiceStart(self)
             r == SubU64(s.processes[i].remaining_time)
         IN  [s EXCEPT !.processes[i].remaining_time = r,
                       !.processes[i].state = IF r = 0 THEN "Terminated" ELSE @]

AfterService(self) == Service(AfterStrategy(self))

\* `for process in self.executable_processes_mut() { process.waiting_time += 1; }`
Wait(self) ==
    [self EXCEPT !.processes =
        [ i \in DOMAIN self.processes |->
            IF IsExecutable(self.processes[i])
            THEN [self.processes[i] EXCEPT !.waiting_time = AddU64(@)]
            ELSE self.processes[i] ]]

\* The Processor when tick() returns.
AfterTick(self) == Wait(AfterService(self))

\* Mutant of SchedulingEvent: the event carries the clock after its increment.
SchedulingEventAfterIncrement(time, start_of_tick, end_of_tick) ==
    [ system_time |-> time + 1, start_of_tick |-> start_of_tick, end_of_tick |-> end_of_tick ]

\* SchedulingEvent::new
SchedulingEvent(time, start_of_tick, end_of_tick) ==
    [ system_time |-> time, start_of_tick |-> start_of_tick, end_of_tick |-> end_of_tick ]

----------------------------------------------------------------------------
\* The longest run of a process vector whose subtraction never underflows
\* takes MaxTicks ticks at most; a run that wrapped a remaining_time needs
\* about 2^64 ticks and is followed for MaxTicks ticks only.
RECURSIVE SumExec(_)
SumExec(procs) ==
    IF procs = << >> THEN 0
    ELSE procs[Len(procs)].remaining_time + SumExec(SubSeq(procs, 1, Len(procs) - 1))

LastStart(procs) ==
    IF procs = << >> THEN 0
    ELSE CHOOSE s \in { procs[i].start_time : i \in DOMAIN procs } :
            \A i \in DOMAIN procs : procs[i].start_time <= s

MaxTicks(procs) == LastStart(procs) + SumExec(procs) + 1

\* The ids of a vector of n processes: 0 .. n-1, ascending or descending.
IdOrders(n) == { [ i \in 1 .. n |-> i - 1 ], [ i \in 1 .. n |-> n - i ] }

\* Processor::new and the start of run().
InitProcessor(strategies) ==
    /\ processes = initial
    /\ current = None
    /\ strategy \in strategies
    /\ system_time = 0
    /\ log = << >>
    /\ pc = "run"
    /\ overflow_checks \in BOOLEAN

\* The runs start from every vector of up to MaxProcs processes, with every
\* start time, execution time (0 included) and priority within the bounds,
\* under every strategy.
Init ==
    /\ \E n \in 0 .. MaxProcs :
          \E ids \in IdOrders(n) :
              \E f \in [ 1 .. n -> (0 .. MaxStart) \X (0 .. MaxExec) \X (0 .. MaxPrio) ] :
                  initial = [ i \in 1 .. n |-> Process(ids[i], f[i][1], f[i][2], f[i][3]) ]
    /\ InitProcessor(Strategies)

\* `while !self.executable_processes().is_empty()`
LoopCondition == executable_processes(Self) # << >>

\* run() is in its loop and enters tick() once more.
CanTick ==
    /\ pc = "run"
    /\ LoopCondition
    /\ system_time < MaxTicks(initial)

\* One iteration of the loop of run(): tick() and the push of its event.
Tick ==
    /\ CanTick
    /\ LET s == AfterStrategy(Self)
       IN  IF Underflows(s) /\ overflow_checks
           THEN \* "attempt to subtract with overflow": the run is aborted
                /\ processes' = ServiceStart(s).processes
                /\ current' = s.current
                /\ system_time' = s.system_time
                /\ log' = log
                /\ pc' = "panicked"
           ELSE LET t == Wait(Service(s))
                IN  /\ processes' = t.processes
                    /\ current' = t.current
                    /\ system_time' = t.system_time
                    /\ log' = Append(log, SchedulingEvent(t.system_time - 1,
                                                          PreviousSnapshot(current, s),
                                                          current_process_ref(t)))
                    /\ pc' = "run"
    /\ UNCHANGED <<initial, strategy, overflow_checks>>

\* The loop of run() ends: no process is executable.
Finish ==
    /\ pc = "run"
    /\ ~LoopCondition
    /\ pc' = "done"
    /\ UNCHANGED <<initial, processes, current, strategy, system_time, log, overflow_checks>>

Next == Tick \/ Finish

Spec == Init /\ [][Next]_vars

----------------------------------------------------------------------------
\* The FCFS scenario: {id0: start 0, execution time 15}, {id1: start 3,
\* execution time 22}, the first two processes of main's vector, under
\* first_come_first_serve; the priorities are free.
ScenarioVectors ==
    { << Process(0, 0, 15, p0), Process(1, 3, 22, p1) >> : p0, p1 \in 0 .. MaxPrio }

InitFCFS ==
    /\ initial \in ScenarioVectors
    /\ InitProcessor({"first_come_first_serve"})

SpecFCFS == InitFCFS /\ [][Next]_vars

----------------------------------------------------------------------------
\* The SJF scenario: {id0: start 0, execution time 5}, {id1: start 0,
\* execution time 2} under shortest_job_first, in either order in the vector;
\* the priorities are free.
ScenarioVectorsSJF ==
    UNION { { << Process(0, 0, 5, p0), Process(1, 0, 2, p1) >>,
              << Process(1, 0, 2, p1), Process(0, 0, 5, p0) >> } : p0, p1 \in 0 .. MaxPrio }

InitSJF ==
    /\ initial \in ScenarioVectorsSJF
    /\ InitProcessor({"shortest_job_first"})

SpecSJF == InitSJF /\ [][Next]_vars

----------------------------------------------------------------------------
\* Helpers of the properties.

RunningCount(procs) == Cardinality({ i \in DOMAIN procs : procs[i].state = "Running" })

\* The process with this id, in a vector that holds it.
ProcessOf(procs, id) == procs[Position(procs, id)]

\* The step is a completed tick: tick() returned and its event was pushed.
TickCompleted == pc = "run" /\ pc' = "run" /\ log' # log

\* The occupant of the tick that is about to run: the current process once the
\* strategy has decided.
Occupant == AfterStrategy(Self).current

----------------------------------------------------------------------------
\* C1: for every initial process vector and every strategy, run() comes to an
\* end, and when it has stopped every process is Terminated with a
\* serviced_time equal to the execution time it was created with and a
\* remaining_time of 0.  (Refuted by a process created with execution time 0:
\* the subtraction of tick() underflows and the run is aborted.)
C1_RunEndsAllTerminated ==
    pc \in {"done", "panicked"} =>
        \A i \in DOMAIN processes :
            /\ processes[i].state = "Terminated"
            /\ processes[i].serviced_time = initial[i].remaining_time
            /\ processes[i].remaining_time = 0

----------------------------------------------------------------------------
\* C2: in every reachable state, and inside a tick after the admission,
\* between suspend_current and set_current, after the strategy and after the
\* bookkeeping of the current process, at most one process is Running.
C2_AtMostOneRunning ==
    /\ RunningCount(processes) <= 1
    /\ CanTick =>
        /\ RunningCount(AfterAdmit(Self).processes) <= 1
        /\ RunningCount(AfterSuspend(Self).processes) <= 1
        /\ RunningCount(AfterStrategy(Self).processes) <= 1
        /\ RunningCount(AfterService(Self).processes) <= 1

\* A tick of a preemptive strategy that suspends the Running process and then
\* selects another one, with a third process waiting.
C2_Witness ==
    /\ CanTick
    /\ strategy \notin NonPreemptive
    /\ RunningCount(processes) = 1
    /\ RunningCount(AfterSuspend(Self).processes) = 0
    /\ RunningCount(AfterStrategy(Self).processes) = 1
    /\ Occupant # current
    /\ \E i \in DOMAIN processes : AfterStrategy(Self).processes[i].state = "Ready"

----------------------------------------------------------------------------
\* C3: after any number of ticks remaining_time + serviced_time of every
\* process is the execution time it was created with, remaining_time never
\* increases and serviced_time never decreases from a tick to the next.
\* (Refuted by a process created with execution time 0 in a build without
\* overflow checks: its remaining_time wraps from 0 to the greatest value.)
C3_TimeConserved ==
    [][ TickCompleted =>
          \A i \in DOMAIN processes :
              /\ processes'[i].remaining_time + processes'[i].serviced_time
                     = initial[i].remaining_time
              /\ processes'[i].remaining_time <= processes[i].remaining_time
              /\ processes'[i].serviced_time >= processes[i].serviced_time ]_vars

----------------------------------------------------------------------------
\* C4: Terminated is absorbing: a process that is Terminated keeps its state
\* through the admission, suspend_current, set_current and the bookkeeping of
\* every later tick, and none of its fields changes.
C4_TerminatedAbsorbing ==
    [][ /\ Len(processes') = Len(processes)
        /\ \A i \in DOMAIN processes :
              processes[i].state = "Terminated" =>
                  /\ processes'[i] = processes[i]
                  /\ CanTick =>
                        /\ AfterAdmit(Self).processes[i] = processes[i]
                        /\ AfterSuspend(Self).processes[i] = processes[i]
                        /\ AfterStrategy(Self).processes[i] = processes[i]
                        /\ AfterService(Self).processes[i] = processes[i] ]_vars

\* A process terminated in an earlier tick (the log holds it as the Terminated
\* end of that tick), later ticks have run, one of them with another occupant,
\* and the process still is as that tick left it.
C4_Witness ==
    \E k \in 1 .. Len(log) :
        /\ k + 1 < Len(log)
        /\ log[k].end_of_tick # None
        /\ log[k].end_of_tick[1].state = "Terminated"
        /\ log[Len(log)].end_of_tick # None
        /\ log[Len(log)].end_of_tick[1].id # log[k].end_of_tick[1].id
        /\ ProcessOf(processes, log[k].end_of_tick[1].id) = log[k].end_of_tick[1]

----------------------------------------------------------------------------
\* C5: at the end of every tick the process that occupied the processor in
\* that tick has waiting_time 0, and a process that was Ready or Suspended in
\* that tick has a waiting_time 1 greater than at the start of the tick.
\* (Refuted: the loop over executable_processes_mut increments the occupant
\* too, which ends the tick with waiting_time 1 unless it terminated.  The
\* ticks looked at are those whose subtraction does not underflow.)
C5_WaitingResetOnRun ==
    [][ TickCompleted /\ ~Underflows(AfterStrategy(Self)) =>
          \A i \in DOMAIN processes :
              /\ current' = Some(processes[i].id) => processes'[i].waiting_time = 0
              /\ processes'[i].state \in {"Ready", "Suspended"} =>
                    processes'[i].waiting_time = processes[i].waiting_time + 1 ]_vars

----------------------------------------------------------------------------
\* C6: the increment of waiting_time is applied only to processes that are
\* not Terminated and were not the executing one: a process still NonExistant
\* keeps waiting_time 0 and the executing process is not incremented.
\* (Refuted: executable_processes_mut filters on Terminated alone, so that
\* NonExistant processes and the executing one are incremented as well.  The
\* ticks looked at are those whose subtraction does not underflow.)
C6_WaitingOnlyWhileEligible ==
    [][ TickCompleted /\ ~Underflows(AfterStrategy(Self)) =>
          \A i \in DOMAIN processes :
              /\ processes'[i].state = "NonExistant" => processes'[i].waiting_time = 0
              /\ current' = Some(processes[i].id) =>
                    processes'[i].waiting_time = Service(AfterStrategy(Self)).processes[i].waiting_time ]_vars

----------------------------------------------------------------------------
\* The selection of a tick, as the claims speak of it.

\* The key the strategy selects by.
SelectionKey ==
    CASE strategy = "first_come_first_serve" -> "start_time"
      [] strategy \in {"shortest_job_first", "shortest_remaining_time"} -> "remaining_time"
      [] strategy \in {"highest_priority_first", "highest_priority_first_preemptive"} -> "priority"

\* The tick that is about to run makes a selection: always under a preemptive
\* strategy, and when the current process is none or Terminated otherwise.
SelectionMade ==
    /\ CanTick
    /\ strategy \in NonPreemptive => needs_schedule(AfterAdmit(Self))

\* The processes the selection is made among, as the strategy sees them.
Candidates == AfterSuspend(Self).processes

\* The positions of the schedulable processes with the least key.
LeastKeyed ==
    { i \in DOMAIN Candidates :
        /\ IsSchedulable(Candidates[i])
        /\ \A j \in DOMAIN Candidates :
              IsSchedulable(Candidates[j]) =>
                  Candidates[i][SelectionKey] <= Candidates[j][SelectionKey] }

Least(S) == CHOOSE x \in S : \A y \in S : x <= y

----------------------------------------------------------------------------
\* C7 as stated: whenever a selection is made and two or more schedulable
\* processes share the least key, the one with the smallest id is chosen, in
\* whatever order the ids of the vector are.  (Refuted: the stable sort keeps
\* the order of the vector, so with ids descending the greatest id wins.)
C7_TieBreakBySmallestId ==
    SelectionMade /\ Cardinality(LeastKeyed) >= 2 =>
        Occupant = Some(Least({ Candidates[i].id : i \in LeastKeyed }))

\* C7 as amended: whenever a selection is made and two or more schedulable
\* processes share the least key, the one that comes first in the process
\* vector is chosen; it is the one with the smallest id when the ids of the
\* vector ascend.
C7_TieBreakByPosition ==
    SelectionMade /\ Cardinality(LeastKeyed) >= 2 =>
        /\ Occupant = Some(Candidates[Least(LeastKeyed)].id)
        /\ (\A i, j \in DOMAIN Candidates : i < j => Candidates[i].id < Candidates[j].id)
              => Occupant = Some(Least({ Candidates[i].id : i \in LeastKeyed }))

\* A selection after the first tick among three processes of which at least
\* two share the least key, in a vector whose ids descend.
C7_Witness ==
    /\ SelectionMade
    /\ system_time > 0
    /\ Cardinality(LeastKeyed) >= 2
    /\ Len(processes) = 3
    /\ processes[1].id > processes[2].id
    /\ Occupant = Some(Candidates[Least(LeastKeyed)].id)
    /\ Occupant # Some(Least({ Candidates[i].id : i \in LeastKeyed }))

----------------------------------------------------------------------------
\* The events of the log, classified after the occupants before and after.

\* X -> Y or X -> none while X has remaining_time left.
Interrupted(e) ==
    /\ e.start_of_tick # None
    /\ e.end_of_tick = None \/ e.end_of_tick[1].id # e.start_of_tick[1].id
    /\ e.start_of_tick[1].remaining_time > 0

\* X -> Y where Y had been serviced before this tick.
Resumed(e) ==
    /\ e.start_of_tick # None
    /\ e.end_of_tick # None
    /\ e.end_of_tick[1].id # e.start_of_tick[1].id
    /\ e.end_of_tick[1].serviced_time # 1

----------------------------------------------------------------------------
\* C8: under first_come_first_serve, shortest_job_first and
\* highest_priority_first the occupant never changes from a process that has
\* remaining_time left, no process is ever Suspended (inside a tick either),
\* and the log holds no Interrupted and no Resumed event.
C8_NonPreemptiveKeepsOccupant ==
    [][ (strategy \in NonPreemptive) =>
          /\ (current # None /\ ProcessOf(processes, current[1]).remaining_time > 0)
                => (current' = current)
          /\ \A i \in DOMAIN processes' : processes'[i].state # "Suspended"
          /\ CanTick =>
                (\A i \in DOMAIN processes :
                    /\ AfterSuspend(Self).processes[i].state # "Suspended"
                    /\ AfterStrategy(Self).processes[i].state # "Suspended")
          /\ \A k \in DOMAIN log' : (~Interrupted(log'[k]) /\ ~Resumed(log'[k]))
      ]_vars

\* Under a non-preemptive strategy a process with a smaller key than the
\* occupant's arrived while the occupant ran, waited until the occupant had
\* terminated, and took over in the tick after.
C8_Witness ==
    /\ strategy \in {"shortest_job_first", "highest_priority_first"}
    /\ \E k \in DOMAIN log :
          /\ log[k].start_of_tick # None
          /\ log[k].end_of_tick # None
          /\ log[k].start_of_tick[1].state = "Terminated"
          /\ log[k].end_of_tick[1].id # log[k].start_of_tick[1].id
          /\ log[k].end_of_tick[1].start_time < log[k].system_time
          /\ log[k].end_of_tick[1].start_time > log[k].start_of_tick[1].start_time
          /\ log[k].end_of_tick[1].priority < log[k].start_of_tick[1].priority
          /\ initial[Position(initial, log[k].end_of_tick[1].id)].remaining_time
                < initial[Position(initial, log[k].start_of_tick[1].id)].remaining_time

----------------------------------------------------------------------------
\* In the log, the process suspended in tick k1 (the start of the event holds
\* it as Suspended and another process ends the tick) is next the occupant in
\* tick k2.
SuspendedThenResumed(events, k1, k2) ==
    /\ k1 < k2
    /\ events[k1].start_of_tick # None
    /\ events[k1].start_of_tick[1].state = "Suspended"
    /\ events[k1].end_of_tick # None
    /\ events[k1].end_of_tick[1].id # events[k1].start_of_tick[1].id
    /\ events[k2].end_of_tick # None
    /\ events[k2].end_of_tick[1].id = events[k1].start_of_tick[1].id
    /\ \A k \in (k1 + 1) .. (k2 - 1) :
          events[k].end_of_tick = None
              \/ events[k].end_of_tick[1].id # events[k1].start_of_tick[1].id

\* A process of a smaller priority value than the Running one arrives in the
\* tick that is about to run.
HigherPriorityArrives ==
    /\ CanTick
    /\ current # None
    /\ ProcessOf(processes, current[1]).state = "Running"
    /\ \E i \in DOMAIN processes :
          /\ processes[i].start_time = system_time
          /\ processes[i].priority < ProcessOf(processes, current[1]).priority

\* C9: under highest_priority_first_preemptive, when a process of a strictly
\* smaller priority value arrives while X is Running, X is Suspended in that
\* tick and a process that arrived in it, of a smaller priority value than X,
\* is the occupant; a process that is not the occupant of a tick keeps its
\* serviced_time and remaining_time, and a process suspended in one tick and
\* next selected in a later one is serviced there from exactly the values it
\* was suspended with.
C9_PreemptionKeepsProgress ==
    [][ (strategy = "highest_priority_first_preemptive") =>
          /\ HigherPriorityArrives =>
                /\ ProcessOf(processes', current[1]).state = "Suspended"
                /\ current' # None
                /\ current' # current
                /\ ProcessOf(processes', current'[1]).start_time = system_time
                /\ ProcessOf(processes', current'[1]).priority
                      < ProcessOf(processes, current[1]).priority
          /\ \A i \in DOMAIN processes :
                (current' # Some(processes[i].id)) =>
                    /\ processes'[i].remaining_time = processes[i].remaining_time
                    /\ processes'[i].serviced_time = processes[i].serviced_time
          /\ \A k1, k2 \in DOMAIN log' :
                SuspendedThenResumed(log', k1, k2) =>
                    /\ log'[k2].end_of_tick[1].serviced_time
                          = AddU64(log'[k1].start_of_tick[1].serviced_time)
                    /\ log'[k2].end_of_tick[1].remaining_time
                          = SubU64(log'[k1].start_of_tick[1].remaining_time)
      ]_vars

\* Under highest_priority_first_preemptive a process that had been serviced
\* was suspended in the tick a process of a smaller priority value arrived,
\* stayed suspended for a tick or more, and was the occupant again later.
C9_Witness ==
    /\ strategy = "highest_priority_first_preemptive"
    /\ \E k1, k2 \in DOMAIN log :
          /\ SuspendedThenResumed(log, k1, k2)
          /\ k2 > k1 + 1
          /\ log[k1].start_of_tick[1].serviced_time > 0
          /\ log[k1].end_of_tick[1].start_time = log[k1].system_time
          /\ log[k1].end_of_tick[1].priority < log[k1].start_of_tick[1].priority
          /\ log[k2].end_of_tick[1].serviced_time
                = log[k1].start_of_tick[1].serviced_time + 1

----------------------------------------------------------------------------
\* C10: in the FCFS scenario id0 is the occupant of the ticks 0 to 14 and is
\* Terminated at the end of tick 14 (the clock reaches 15), id1 takes over
\* from the Terminated id0 in tick 15 with its first tick of service, is the
\* occupant of the ticks 15 to 36 and is Terminated at the end of tick 36; the
\* run ends there, with the clock at 37 and 37 events, and never later.
C10_FCFSScenario ==
    /\ pc # "panicked"
    /\ system_time <= 37
    /\ Len(log) = system_time
    /\ pc = "done" => system_time = 37
    /\ system_time = 37 => ~CanTick /\ ~LoopCondition
    /\ \A k \in DOMAIN log :
          /\ log[k].system_time = k - 1
          /\ log[k].end_of_tick # None
          /\ log[k].end_of_tick[1].id = (IF k - 1 <= 14 THEN 0 ELSE 1)
          /\ log[k].end_of_tick[1].state
                = (IF k - 1 \in {14, 36} THEN "Terminated" ELSE "Running")
          /\ k - 1 = 0 => log[k].start_of_tick = None
          /\ k - 1 \in 1 .. 15 =>
                /\ log[k].start_of_tick # None
                /\ log[k].start_of_tick[1].id = 0
                /\ log[k].start_of_tick[1].state
                      = (IF k - 1 = 15 THEN "Terminated" ELSE "Running")
          /\ k - 1 = 15 => log[k].end_of_tick[1].serviced_time = 1
          /\ k - 1 \in 16 .. 36 =>
                /\ log[k].start_of_tick # None
                /\ log[k].start_of_tick[1].id = 1
                /\ log[k].start_of_tick[1].state = "Running"

\* The run of the scenario has ended after its 37 ticks.
C10_Witness ==
    /\ pc = "done"
    /\ Len(log) = 37
    /\ \A i \in DOMAIN processes : processes[i].state = "Terminated"

----------------------------------------------------------------------------
\* C11: in the SJF scenario id1 is selected first, in tick 0, is the occupant
\* of the ticks 0 and 1 and is Terminated at the end of tick 1 (the clock
\* reaches 2); id0 takes over from the Terminated id1 in tick 2 with its first
\* tick of service, is the occupant of the ticks 2 to 6 and is Terminated at
\* the end of tick 6; the run ends there, with the clock at 7 and 7 events,
\* and never later.
C11_SJFScenario ==
    /\ pc # "panicked"
    /\ system_time <= 7
    /\ Len(log) = system_time
    /\ pc = "done" => system_time = 7
    /\ system_time = 7 => ~CanTick /\ ~LoopCondition
    /\ \A k \in DOMAIN log :
          /\ log[k].system_time = k - 1
          /\ log[k].end_of_tick # None
          /\ log[k].end_of_tick[1].id = (IF k - 1 <= 1 THEN 1 ELSE 0)
          /\ log[k].end_of_tick[1].state
                = (IF k - 1 \in {1, 6} THEN "Terminated" ELSE "Running")
          /\ k - 1 = 0 =>
                /\ log[k].start_of_tick = None
                /\ log[k].end_of_tick[1].serviced_time = 1
          /\ k - 1 \in 1 .. 2 =>
                /\ log[k].start_of_tick # None
                /\ log[k].start_of_tick[1].id = 1
                /\ log[k].start_of_tick[1].state
                      = (IF k - 1 = 2 THEN "Terminated" ELSE "Running")
          /\ k - 1 = 2 => log[k].end_of_tick[1].serviced_time = 1
          /\ k - 1 \in 3 .. 6 =>
                /\ log[k].start_of_tick # None
                /\ log[k].start_of_tick[1].id = 0
                /\ log[k].start_of_tick[1].state = "Running"

\* The run of the SJF scenario has ended after its 7 ticks, from the vector
\* that holds the longer job id0 first.
C11_Witness ==
    /\ pc = "done"
    /\ strategy = "shortest_job_first"
    /\ Len(log) = 7
    /\ initial[1].id = 0
    /\ initial[1].remaining_time = 5
    /\ \A i \in DOMAIN processes : processes[i].state = "Terminated"

----------------------------------------------------------------------------
\* C13: every tick that run() executes to its end appends exactly one event
\* to the log, and nothing else does; the event appended as the k-th (from 0)
\* carries system_time k; the events already in the log are not changed; so
\* after every tick, and when the run has ended, the system_time of the
\* events counts up from 0 and the length of the log is system_time.
C13_OneEventPerTick ==
    [][ /\ SubSeq(log', 1, Len(log)) = log
        /\ (pc' = "run") =>
              /\ system_time' = system_time + 1
              /\ Len(log') = Len(log) + 1
              /\ log'[Len(log')].system_time = Len(log)
        /\ (pc' # "run") => log' = log
        /\ (pc' = "done") => system_time' = system_time
        /\ (pc' \in {"run", "done"}) =>
              /\ Len(log') = system_time'
              /\ \A k \in DOMAIN log' : log'[k].system_time = k - 1
              /\ \A k \in DOMAIN log' :
                    k > 1 => log'[k - 1].system_time <= log'[k].system_time ]_vars

\* A run that has ended after five ticks or more, one of them idle.
C13_Witness ==
    /\ pc = "done"
    /\ Len(log) >= 5
    /\ Len(log) = system_time
    /\ \E k \in DOMAIN log : log[k].end_of_tick = None

----------------------------------------------------------------------------
\* The changes of state between two points of a tick, as pairs <<from, to>>.
StateChanges(before, after) ==
    { << before[i].state, after[i].state >> :
          i \in { j \in DOMAIN before : before[j].state # after[j].state } }

\* C14: in every tick the admission changes states only from NonExistant to
\* Ready, suspend_current only from Running to Suspended, set_current only
\* from Ready or Suspended to Running, the bookkeeping of the current process
\* only from Running to Terminated, and the waiting loop changes no state; the
\* state the tick leaves is the one these steps produce.
C14_StateTransitions ==
    [][ CanTick =>
          /\ StateChanges(processes, AfterAdmit(Self).processes)
                \subseteq { <<"NonExistant", "Ready">> }
          /\ StateChanges(AfterAdmit(Self).processes, AfterSuspend(Self).processes)
                \subseteq { <<"Running", "Suspended">> }
          /\ StateChanges(AfterSuspend(Self).processes, AfterStrategy(Self).processes)
                \subseteq { <<"Ready", "Running">>, <<"Suspended", "Running">> }
          /\ StateChanges(AfterStrategy(Self).processes, AfterService(Self).processes)
                \subseteq { <<"Running", "Terminated">> }
          /\ StateChanges(AfterService(Self).processes, AfterTick(Self).processes) = {}
          /\ \A i \in DOMAIN processes :
                processes'[i].state
                    = (IF pc' = "panicked"
                       THEN AfterStrategy(Self).processes[i].state
                       ELSE AfterTick(Self).processes[i].state) ]_vars

\* A tick of a preemptive strategy in which a process is admitted, the
\* Running process is suspended, a Ready process is set Running and terminates.
C14_Witness ==
    /\ CanTick
    /\ <<"NonExistant", "Ready">> \in StateChanges(processes, AfterAdmit(Self).processes)
    /\ <<"Running", "Suspended">>
          \in StateChanges(AfterAdmit(Self).processes, AfterSuspend(Self).processes)
    /\ <<"Ready", "Running">>
          \in StateChanges(AfterSuspend(Self).processes, AfterStrategy(Self).processes)
    /\ <<"Running", "Terminated">>
          \in StateChanges(AfterStrategy(Self).processes, AfterService(Self).processes)

----------------------------------------------------------------------------
\* C15: a process leaves NonExistant in the tick that starts with system_time
\* equal to its start_time, and in that tick only; so after every tick and at
\* the end of the run a process is NonExistant if and only if its start_time
\* is system_time or later, and the current process, if any, has a start_time
\* earlier than system_time: it was selected in a tick not before its
\* start_time.
C15_AdmissionAtArrival ==
    [][ /\ \A i \in DOMAIN processes :
              /\ (processes[i].state = "NonExistant" /\ processes'[i].state # "NonExistant")
                    <=> (processes[i].start_time = system_time /\ system_time' # system_time)
              /\ (pc' \in {"run", "done"}) =>
                    (processes'[i].state = "NonExistant"
                        <=> processes'[i].start_time >= system_time')
        /\ (current' # None) =>
              ProcessOf(processes', current'[1]).start_time < system_time' ]_vars

\* A process has been admitted in the tick of its start_time, later than
\* tick 0, and selected; another process is still to arrive.
C15_Witness ==
    /\ pc = "run"
    /\ current # None
    /\ ProcessOf(processes, current[1]).start_time = system_time - 1
    /\ system_time >= 2
    /\ \E i \in DOMAIN processes :
          /\ processes[i].state = "NonExistant"
          /\ processes[i].start_time >= system_time

----------------------------------------------------------------------------
\* C16: a tick of a non-preemptive strategy whose current process is neither
\* none nor Terminated keeps the current process; every other tick makes a
\* selection, and then the process chosen is Ready, Running or Suspended at
\* that moment and no schedulable process has a smaller key (start_time for
\* FCFS, remaining_time for SJF and SRT, priority for HPF and HPF-preemptive),
\* and the processor is left without a current process exactly when no process
\* is schedulable.  The tick runs with the process so chosen.
C16_SelectionIsLeastKeyed ==
    [][ CanTick =>
          /\ current' = Occupant
          /\ ~SelectionMade => Occupant = current
          /\ SelectionMade =>
                /\ (Occupant = None) <=> (\A i \in DOMAIN Candidates : ~IsSchedulable(Candidates[i]))
                /\ (Occupant # None) =>
                      /\ Position(Candidates, Occupant[1]) \in DOMAIN Candidates
                      /\ Candidates[Position(Candidates, Occupant[1])].state
                            \in {"Ready", "Running", "Suspended"}
                      /\ Position(Candidates, Occupant[1]) \in LeastKeyed ]_vars

\* A selection after the first tick among two schedulable processes or more,
\* in which the process chosen is not the first of the vector and a process
\* that is not schedulable has a smaller key than the one chosen.
C16_Witness ==
    /\ SelectionMade
    /\ system_time > 0
    /\ Occupant # None
    /\ Position(Candidates, Occupant[1]) > 1
    /\ Cardinality({ i \in DOMAIN Candidates : IsSchedulable(Candidates[i]) }) >= 2
    /\ \E i \in DOMAIN Candidates :
          /\ ~IsSchedulable(Candidates[i])
          /\ Candidates[i][SelectionKey] < ProcessOf(Candidates, Occupant[1])[SelectionKey]

----------------------------------------------------------------------------
\* The process at position i is Running before the tick and Suspended after
\* it.
Preempted(i) == processes[i].state = "Running" /\ processes'[i].state = "Suspended"

\* C17 as stated: a process that is Running at the end of a tick is Suspended
\* at the end of the next one only under a preemptive strategy, and then the
\* new occupant's key at the decision (priority under HPF-preemptive,
\* remaining_time under SRT) is strictly smaller than the suspended
\* process's; stated for the runs in which every process was created with an
\* execution time of 1 or more.  (Refuted: a process with an equal key that
\* comes earlier in the vector and arrives later displaces the Running
\* process.)
C17_PreemptedByStrictlySmaller ==
    [][ \A i \in DOMAIN processes :
            Preempted(i) /\ (\A j \in DOMAIN initial : initial[j].remaining_time >= 1) =>
                /\ strategy \notin NonPreemptive
                /\ current' # None
                /\ ProcessOf(Candidates, current'[1])[SelectionKey]
                      < Candidates[i][SelectionKey] ]_vars

\* C17 as amended: a process that is Running at the end of a tick is Suspended
\* at the end of the next one only under a preemptive strategy, and then
\* another process is the new occupant, whose key at the decision is smaller
\* than the suspended process's, or equal to it while the new occupant comes
\* earlier in the process vector.
C17_PreemptedByLeastKeyed ==
    [][ \A i \in DOMAIN processes :
            Preempted(i) =>
                /\ strategy \notin NonPreemptive
                /\ current' # None
                /\ current'[1] # processes[i].id
                /\ \/ ProcessOf(Candidates, current'[1])[SelectionKey]
                          < Candidates[i][SelectionKey]
                   \/ /\ ProcessOf(Candidates, current'[1])[SelectionKey]
                            = Candidates[i][SelectionKey]
                      /\ Position(Candidates, current'[1]) < i ]_vars

\* A tick of shortest_remaining_time in which the Running process is displaced
\* by a process that has just arrived with the same remaining_time and comes
\* earlier in the vector.
C17_Witness ==
    /\ CanTick
    /\ strategy = "shortest_remaining_time"
    /\ current # None
    /\ ProcessOf(processes, current[1]).state = "Running"
    /\ Occupant # None
    /\ Occupant # current
    /\ ProcessOf(Candidates, Occupant[1]).state = "Ready"
    /\ ProcessOf(Candidates, Occupant[1]).remaining_time
          = ProcessOf(Candidates, current[1]).remaining_time
    /\ Position(Candidates, Occupant[1]) < Position(Candidates, current[1])
    /\ ~Underflows(AfterStrategy(Self))
    /\ AfterTick(Self).processes[Position(processes, current[1])].state = "Suspended"

----------------------------------------------------------------------------
\* The id and the state of an occupant snapshot (none: the empty tuple).
IdAndState(snapshot) ==
    IF snapshot = None THEN None ELSE << snapshot[1].id, snapshot[1].state >>

\* C18: the event of every tick holds as start_of_tick the id and the state
\* the current process had before the tick, which are those of the end_of_tick
\* of the preceding event, and as end_of_tick the id and the state of the
\* current process after the tick; stated for the runs in which every process
\* was created with an execution time of 1 or more.  (Refuted: the snapshot is
\* copied after the strategy has run, so that a process preempted in the tick
\* is logged as Suspended although it ended the preceding tick Running.)
C18_StartOfTickIsPreviousEnd ==
    [][ TickCompleted /\ (\A j \in DOMAIN initial : initial[j].remaining_time >= 1) =>
          LET e == log'[Len(log')]
          IN  /\ IdAndState(e.start_of_tick) = IdAndState(current_process_ref(Self))
              /\ IdAndState(e.end_of_tick)
                    = IdAndState(current_process_ref(
                          [processes |-> processes', current |-> current',
                           system_time |-> system_time']))
              /\ log # << >> =>
                    IdAndState(e.start_of_tick) = IdAndState(log[Len(log)].end_of_tick) ]_vars

----------------------------------------------------------------------------
\* C19: after every tick, and when the run has ended, the current process is
\* none or a process of the vector that is Running or Terminated, and every
\* Running process is the current one; so no Ready, Suspended or NonExistant
\* process is the current one there.
C19_CurrentIsRunningOrTerminated ==
    pc \in {"run", "done"} =>
        /\ current # None =>
              /\ Position(processes, current[1]) \in DOMAIN processes
              /\ ProcessOf(processes, current[1]).state \in {"Running", "Terminated"}
        /\ \A i \in DOMAIN processes :
              /\ processes[i].state = "Running" => current = Some(processes[i].id)
              /\ processes[i].state \in {"Ready", "Suspended", "NonExistant"}
                    => current # Some(processes[i].id)

\* After a tick the current process is Running while another process is
\* Suspended and a third one is Ready or yet to arrive.
C19_Witness ==
    /\ pc = "run"
    /\ system_time > 0
    /\ current # None
    /\ ProcessOf(processes, current[1]).state = "Running"
    /\ \E i, j \in DOMAIN processes :
          /\ processes[i].state = "Suspended"
          /\ processes[j].state \in {"Ready", "NonExistant"}

----------------------------------------------------------------------------
\* C20: in every tick that is about to run, the process the strategy leaves as
\* the current one has a remaining_time of 1 or more when the bookkeeping
\* subtracts 1 from it.  (Refuted by a process created with execution time 0:
\* it is selected with remaining_time 0 and the subtraction underflows.)
C20_NoUnderflow ==
    CanTick /\ Occupant # None =>
        ProcessOf(AfterStrategy(Self).processes, Occupant[1]).remaining_time >= 1

====
